---- MODULE Spec2Model ----
(***************************************************************************)
(* Model of hammock: validators.ValueTransitionValidator (Spec,             *)
(* SpecExample, SpecBind, SpecShared), the state field metadata of         *)
(* metadata.StateTransitioningFieldMetadataMixin (SpecMeta),               *)
(* views.AtomicNonIdempotentActionViewSetMixin (SpecAtomic),               *)
(* filters.AuthenticatedUserAccessFilter (SpecFilter),                     *)
(* serializers.PolymorphicModelSerializer (SpecSerializer) and             *)
(* metadata.ObjectSpecificMetadata.determine_actions (SpecMetadata).       *)
(*                                                                         *)
(* Python values are modelled as strings.  None is the string NoneValue,   *)
(* the empty string "" stands for a falsy value other than None.  Python   *)
(* lists whose elements are only looked up with `in` (a rule's from-values,*)
(* valid_values, the returned list of transitions) are modelled as sets;   *)
(* the table itself keeps its order, because dict() depends on it.         *)
(*                                                                         *)
(* `not self.valid_values` and `not getattr(field, 'choices', None)` treat *)
(* None and an empty collection alike, so both are modelled as {}.         *)
(***************************************************************************)
EXTENDS Integers, Sequences, FiniteSets, TLC

VARIABLES
    value_transitions,        \* self.value_transitions: <<to_value, from_values>>
    valid_values,             \* self.valid_values ({} models None / empty)
    choices,                  \* keys of self.serializer_field.choices ({} = none)
    instance,                 \* self.instance: <<>> is None, <<v>> holds field v
    value,                    \* argument of the last __call__
    current_value,            \* local of the last __call__ (line 98)
    valid_value_transitions,  \* local of the last __call__ (line 100)
    outcome,                  \* how the last __call__ ended
    op,                       \* last operation performed
    handler,                  \* request handlers sharing the validator object
    choices_info,             \* result of the metadata's get_field_choices_info
    txn,                      \* a viewset action of the atomic mixin and its database
    flt,                      \* a call of AuthenticatedUserAccessFilter.filter_queryset
    ser,                      \* a construction of a PolymorphicModelSerializer
    md                        \* a run of ObjectSpecificMetadata.determine_actions

validatorVars == <<value_transitions, valid_values, choices, instance, value,
                   current_value, valid_value_transitions, outcome, op>>

vars == <<value_transitions, valid_values, choices, instance, value,
          current_value, valid_value_transitions, outcome, op,
          handler, choices_info, txn, flt, ser, md>>

\* A component that takes no part in a specification keeps this value.
Unused == [pc |-> "unused"]

\* ---------------------------------------------------------------- bounds
MaxRules == 2

\* ---------------------------------------------------------------- values
NoneValue == "None"
Empty == ""
Values == {"a", Empty}
AllValues == Values \cup {NoneValue}

ExampleValues == {"start", "middle", "end"}
ExampleTable ==
    << <<"start", {NoneValue}>>,
       <<"middle", {"start"}>>,
       <<"end", {"start", "middle"}>>,
       <<NoneValue, {"end"}>> >>

NoInstance == <<>>
Instance(v) == <<v>>

\* Python truth value of a modelled value: None and "" are falsy.
Truthy(v) == v \notin {NoneValue, Empty}

\* ------------------------------------------------------- dict(table) helpers
\* `key in dict(value_transitions)`
InDict(vt, key) == \E i \in DOMAIN vt : vt[i][1] = key

\* dict(value_transitions).get(key, []): dict() keeps the LAST pair of a key.
DictGet(vt, key) ==
    IF InDict(vt, key)
    THEN LET last == CHOOSE i \in DOMAIN vt :
                        /\ vt[i][1] = key
                        /\ \A j \in DOMAIN vt : vt[j][1] = key => j <= i
         IN  vt[last][2]
    ELSE {}

\* The value domain the unconstrained branch uses (lines 78-84): the explicit
\* valid_values when truthy, otherwise the keys of the field's choices.
ValueDomain(vv, ch) == IF vv # {} THEN vv ELSE ch

\* Lines 78-83: neither valid_values nor choices available.
DomainUndeterminable(vv, ch) == vv = {} /\ ch = {}

\* Variants of _get_valid_value_transitions with one slip each.
\* The domain is resolved before the branches, so a missing domain raises
\* even for constrained and terminal values.
GetValid_EagerDomain(vt, vv, ch, cur) ==
    IF DomainUndeterminable(vv, ch)
    THEN [raised |-> TRUE, ret |-> {}, valid_values |-> vv]
    ELSE IF Truthy(cur) /\ cur \in DictGet(vt, NoneValue)
    THEN [raised |-> FALSE, ret |-> {}, valid_values |-> vv]
    ELSE IF ~InDict(vt, cur) \/ cur = NoneValue
    THEN [raised |-> FALSE,
          ret |-> (ValueDomain(vv, ch) \ {cur}) \cup {NoneValue},
          valid_values |-> ValueDomain(vv, ch)]
    ELSE [raised |-> FALSE,
          ret |-> {vt[i][1] : i \in {j \in DOMAIN vt : cur \in vt[j][2]}},
          valid_values |-> vv]

\* The filter `choice != current_value` is missing.
GetValid_KeepsCurrent(vt, vv, ch, cur) ==
    IF Truthy(cur) /\ cur \in DictGet(vt, NoneValue)
    THEN [raised |-> FALSE, ret |-> {}, valid_values |-> vv]
    ELSE IF ~InDict(vt, cur) \/ cur = NoneValue
    THEN IF DomainUndeterminable(vv, ch)
         THEN [raised |-> TRUE, ret |-> {}, valid_values |-> vv]
         ELSE [raised |-> FALSE,
               ret |-> ValueDomain(vv, ch) \cup {NoneValue},
               valid_values |-> ValueDomain(vv, ch)]
    ELSE [raised |-> FALSE,
          ret |-> {vt[i][1] : i \in {j \in DOMAIN vt : cur \in vt[j][2]}},
          valid_values |-> vv]

\* The scan stops at the first rule that lists the current value.
GetValid_FirstMatch(vt, vv, ch, cur) ==
    IF Truthy(cur) /\ cur \in DictGet(vt, NoneValue)
    THEN [raised |-> FALSE, ret |-> {}, valid_values |-> vv]
    ELSE IF ~InDict(vt, cur) \/ cur = NoneValue
    THEN IF DomainUndeterminable(vv, ch)
         THEN [raised |-> TRUE, ret |-> {}, valid_values |-> vv]
         ELSE [raised |-> FALSE,
               ret |-> (ValueDomain(vv, ch) \ {cur}) \cup {NoneValue},
               valid_values |-> ValueDomain(vv, ch)]
    ELSE [raised |-> FALSE,
          ret |-> {vt[i][1] : i \in {j \in DOMAIN vt :
                      /\ cur \in vt[j][2]
                      /\ \A k \in DOMAIN vt : cur \in vt[k][2] => j <= k}},
          valid_values |-> vv]

\* `not current_value` is tested where the code tests `current_value is None`.
GetValid_FalsyUnconstrained(vt, vv, ch, cur) ==
    IF Truthy(cur) /\ cur \in DictGet(vt, NoneValue)
    THEN [raised |-> FALSE, ret |-> {}, valid_values |-> vv]
    ELSE IF ~InDict(vt, cur) \/ ~Truthy(cur)
    THEN IF DomainUndeterminable(vv, ch)
         THEN [raised |-> TRUE, ret |-> {}, valid_values |-> vv]
         ELSE [raised |-> FALSE,
               ret |-> (ValueDomain(vv, ch) \ {cur}) \cup {NoneValue},
               valid_values |-> ValueDomain(vv, ch)]
    ELSE [raised |-> FALSE,
          ret |-> {vt[i][1] : i \in {j \in DOMAIN vt : cur \in vt[j][2]}},
          valid_values |-> vv]

\* The table is read backwards: the from-values of the rules whose to-value
\* is the current value are returned.
GetValid_Reversed(vt, vv, ch, cur) ==
    IF Truthy(cur) /\ cur \in DictGet(vt, NoneValue)
    THEN [raised |-> FALSE, ret |-> {}, valid_values |-> vv]
    ELSE IF ~InDict(vt, cur) \/ cur = NoneValue
    THEN IF DomainUndeterminable(vv, ch)
         THEN [raised |-> TRUE, ret |-> {}, valid_values |-> vv]
         ELSE [raised |-> FALSE,
               ret |-> (ValueDomain(vv, ch) \ {cur}) \cup {NoneValue},
               valid_values |-> ValueDomain(vv, ch)]
    ELSE [raised |-> FALSE,
          ret |-> UNION {vt[i][2] : i \in {j \in DOMAIN vt : vt[j][1] = cur}},
          valid_values |-> vv]

\* _get_valid_value_transitions: the result is a record
\*   raised       - TRUE when ImproperlyConfigured is raised (line 80)
\*   ret          - the returned list, as a set
\*   valid_values - self.valid_values after the call (line 84 caches it)
GetValidValueTransitions(vt, vv, ch, cur) ==
    IF Truthy(cur) /\ cur \in DictGet(vt, NoneValue)
    THEN [raised |-> FALSE, ret |-> {}, valid_values |-> vv]
    ELSE IF ~InDict(vt, cur) \/ cur = NoneValue
    THEN IF DomainUndeterminable(vv, ch)
         THEN [raised |-> TRUE, ret |-> {}, valid_values |-> vv]
         ELSE [raised |-> FALSE,
               ret |-> (ValueDomain(vv, ch) \ {cur}) \cup {NoneValue},
               valid_values |-> ValueDomain(vv, ch)]
    ELSE [raised |-> FALSE,
          ret |-> {vt[i][1] : i \in {j \in DOMAIN vt : cur \in vt[j][2]}},
          valid_values |-> vv]

\* Variants of __call__ with one slip each.
\* The test `value and ...` is missing: falsy values are checked too.
CallResult_NoFalsyBypass(vt, vv, ch, inst, v) ==
    IF inst = NoInstance
    THEN [outcome |-> "AttributeError", current_value |-> NoneValue,
          ret |-> {}, valid_values |-> vv]
    ELSE LET cur == inst[1]
             r == GetValidValueTransitions(vt, vv, ch, cur)
         IN  IF r.raised
             THEN [outcome |-> "ImproperlyConfigured", current_value |-> cur,
                   ret |-> {}, valid_values |-> vv]
             ELSE [outcome |-> IF v \notin r.ret
                               THEN "ValidationError" ELSE "ok",
                   current_value |-> cur,
                   ret |-> r.ret, valid_values |-> r.valid_values]

\* The check is skipped when the list of transitions is empty (falsy).
CallResult_EmptyAllowsAll(vt, vv, ch, inst, v) ==
    IF inst = NoInstance
    THEN [outcome |-> "AttributeError", current_value |-> NoneValue,
          ret |-> {}, valid_values |-> vv]
    ELSE LET cur == inst[1]
             r == GetValidValueTransitions(vt, vv, ch, cur)
         IN  IF r.raised
             THEN [outcome |-> "ImproperlyConfigured", current_value |-> cur,
                   ret |-> {}, valid_values |-> vv]
             ELSE [outcome |-> IF Truthy(v) /\ r.ret # {} /\ v \notin r.ret
                               THEN "ValidationError" ELSE "ok",
                   current_value |-> cur,
                   ret |-> r.ret, valid_values |-> r.valid_values]

\* Result of __call__(v) in the given validator state:
\*   outcome is "ok", "ValidationError", "ImproperlyConfigured" or
\*   "AttributeError" (getattr(None, field_name), line 98).
CallResult(vt, vv, ch, inst, v) ==
    IF inst = NoInstance
    THEN [outcome |-> "AttributeError", current_value |-> NoneValue,
          ret |-> {}, valid_values |-> vv]
    ELSE LET cur == inst[1]
             r == GetValidValueTransitions(vt, vv, ch, cur)
         IN  IF r.raised
             THEN [outcome |-> "ImproperlyConfigured", current_value |-> cur,
                   ret |-> {}, valid_values |-> vv]
             ELSE [outcome |-> IF Truthy(v) /\ v \notin r.ret
                               THEN "ValidationError" ELSE "ok",
                   current_value |-> cur,
                   ret |-> r.ret, valid_values |-> r.valid_values]

\* ------------------------------------------------------------ configurations
Rules == {<<t, s>> : t \in AllValues, s \in SUBSET AllValues}

RECURSIVE TablesOfLen(_)
TablesOfLen(n) ==
    IF n = 0 THEN {<<>>}
    ELSE {Append(t, r) : t \in TablesOfLen(n - 1), r \in Rules}

Tables == UNION {TablesOfLen(n) : n \in 0..MaxRules}

ValidValuesArgs == {{}, {"a"}, {"a", Empty}}
ChoicesOfField == {{}, {"a", Empty}}

\* ------------------------------------------------------------------- states
\* __init__ followed by set_context: a validator bound to a serializer field.
Init ==
    /\ value_transitions \in Tables
    /\ valid_values \in ValidValuesArgs
    /\ choices \in ChoicesOfField
    /\ instance \in {NoInstance} \cup {Instance(v) : v \in AllValues}
    /\ value = NoneValue
    /\ current_value = NoneValue
    /\ valid_value_transitions = {}
    /\ outcome = "none"
    /\ op = "set_context"
    /\ handler = Unused
    /\ choices_info = Unused
    /\ txn = Unused
    /\ flt = Unused
    /\ ser = Unused
    /\ md = Unused

InitExample ==
    /\ value_transitions = ExampleTable
    /\ \/ valid_values = {} /\ choices = ExampleValues
       \/ valid_values = ExampleValues /\ choices \in {{}, ExampleValues}
    /\ instance \in {NoInstance, Instance(NoneValue)}
    /\ value = NoneValue
    /\ current_value = NoneValue
    /\ valid_value_transitions = {}
    /\ outcome = "none"
    /\ op = "set_context"
    /\ handler = Unused
    /\ choices_info = Unused
    /\ txn = Unused
    /\ flt = Unused
    /\ ser = Unused
    /\ md = Unused

\* ValueTransitionValidator.__call__(v)
Call(v) ==
    LET r == CallResult(value_transitions, valid_values, choices, instance, v)
    IN  /\ value' = v
        /\ current_value' = r.current_value
        /\ valid_value_transitions' = r.ret
        /\ outcome' = r.outcome
        /\ valid_values' = r.valid_values
        /\ op' = "call"
        /\ UNCHANGED <<value_transitions, choices, instance>>

\* An update of the field: the validator runs on the proposed value and the
\* value is stored on the instance only if the validator raised nothing.
Update(v) ==
    LET r == CallResult(value_transitions, valid_values, choices, instance, v)
    IN  /\ value' = v
        /\ current_value' = r.current_value
        /\ valid_value_transitions' = r.ret
        /\ outcome' = r.outcome
        /\ valid_values' = r.valid_values
        /\ op' = "update"
        /\ instance' = IF r.outcome = "ok" THEN Instance(v) ELSE instance
        /\ UNCHANGED <<value_transitions, choices>>

Next ==
    \E v \in AllValues :
        Call(v) /\ UNCHANGED <<handler, choices_info, txn, flt, ser, md>>

Spec == Init /\ [][Next]_vars

\* Values a request may propose for the example field.
ExampleProposals == ExampleValues \cup {NoneValue, Empty}

NextExample ==
    \/ \E v \in ExampleProposals :
           Call(v) /\ UNCHANGED <<handler, choices_info, txn, flt, ser, md>>
    \/ \E v \in ExampleProposals :
           Update(v) /\ UNCHANGED <<handler, choices_info, txn, flt, ser, md>>

SpecExample == InitExample /\ [][NextExample]_vars

\* ------------------------------------------- set_context and shared validators
\* ValueTransitionValidator.set_context(serializer_field): the validator
\* object keeps the field (its choices) and the serializer's instance.
SetContext(ch, inst) ==
    /\ choices' = ch
    /\ instance' = inst
    /\ op' = "set_context"
    /\ UNCHANGED <<value_transitions, valid_values, value, current_value,
                   valid_value_transitions, outcome>>

\* --------------------------------------------- metadata of the state field
\* StateTransitioningFieldMetadataMixin._get_valid_transition_previous_states
\* (metadata.py): the from-values of the FIRST rule whose to-value is `state`
\* (next() over the table); for a state no rule lists, every choice except
\* `state` and the from-values of the None rule that dict() keeps, plus None.
\* st is model.STATE_TRANSITIONS, ch the choices of the model's state field.
PreviousStates(st, ch, state) ==
    IF InDict(st, state)
    THEN LET first == CHOOSE i \in DOMAIN st :
                          /\ st[i][1] = state
                          /\ \A j \in DOMAIN st : st[j][1] = state => i <= j
         IN  st[first][2]
    ELSE {c \in ch : c \notin DictGet(st, NoneValue) \cup {state}}
             \cup {NoneValue}

\* get_field_choices_info for the `state` field of a model with
\* STATE_TRANSITIONS: every choice gets valid.only_if.state.
FieldChoicesInfo(st, ch) == [c \in ch |-> PreviousStates(st, ch, c)]

\* The OPTIONS metadata is built for a serializer whose model's
\* STATE_TRANSITIONS is the validator's table and whose state field has the
\* validator's field's choices.
Options ==
    /\ choices_info' = [pc |-> "done",
                        only_if |-> FieldChoicesInfo(value_transitions, choices)]
    /\ UNCHANGED validatorVars

InitMeta ==
    /\ value_transitions \in Tables
    /\ choices = Values
    /\ valid_values = {}
    /\ instance \in {Instance(v) : v \in AllValues}
    /\ value = NoneValue
    /\ current_value = NoneValue
    /\ valid_value_transitions = {}
    /\ outcome = "none"
    /\ op = "set_context"
    /\ handler = Unused
    /\ choices_info = Unused
    /\ txn = Unused
    /\ flt = Unused
    /\ ser = Unused
    /\ md = Unused

NextMeta ==
    \/ \E v \in AllValues :
           Call(v) /\ UNCHANGED <<handler, choices_info, txn, flt, ser, md>>
    \/ Options /\ UNCHANGED <<handler, txn, flt, ser, md>>

SpecMeta == InitMeta /\ [][NextMeta]_vars

\* A validator that is bound again between validations: set_context is
\* called before every validation, with the field as it is then.
MaxBindRules == 1

BindTables == UNION {TablesOfLen(n) : n \in 0..MaxBindRules}

\* Choice sets a bound field may have.
BindChoices == ChoicesOfField \cup {{"a"}}

InitBind ==
    /\ value_transitions \in BindTables
    /\ valid_values \in ValidValuesArgs
    /\ choices \in BindChoices
    /\ instance \in {NoInstance} \cup {Instance(v) : v \in AllValues}
    /\ value = NoneValue
    /\ current_value = NoneValue
    /\ valid_value_transitions = {}
    /\ outcome = "none"
    /\ op = "set_context"
    /\ handler = Unused
    /\ choices_info = Unused
    /\ txn = Unused
    /\ flt = Unused
    /\ ser = Unused
    /\ md = Unused

NextBind ==
    \/ \E v \in AllValues :
           Call(v) /\ UNCHANGED <<handler, choices_info, txn, flt, ser, md>>
    \/ \E ch \in BindChoices :
           \E inst \in {NoInstance} \cup {Instance(v) : v \in AllValues} :
               /\ SetContext(ch, inst)
               /\ UNCHANGED <<handler, choices_info, txn, flt, ser, md>>

SpecBind == InitBind /\ [][NextBind]_vars

\* Two request handlers use one validator object (a validator is created
\* once, in the field declaration of the serializer class).
Requests == {1, 2}

\* handler[r].own is the field value of the instance of r's serializer,
\* handler[r].proposed the value r validates, handler[r].read the current
\* value r's __call__ read from self.instance (line 98).
InitShared ==
    /\ value_transitions = ExampleTable
    /\ valid_values \in {{}, ExampleValues}
    /\ choices = ExampleValues
    /\ instance = NoInstance
    /\ value = NoneValue
    /\ current_value = NoneValue
    /\ valid_value_transitions = {}
    /\ outcome = "none"
    /\ op = "init"
    /\ handler \in [Requests ->
                      [pc : {"start"},
                       own : ExampleValues \cup {NoneValue},
                       proposed : ExampleValues \cup {NoneValue},
                       read : {NoneValue},
                       outcome : {"none"}]]
    /\ choices_info = Unused
    /\ txn = Unused
    /\ flt = Unused
    /\ ser = Unused
    /\ md = Unused

\* Handler r runs the field's validators: first set_context ...
HandlerSetContext(r) ==
    /\ handler[r].pc = "start"
    /\ SetContext(choices, Instance(handler[r].own))
    /\ handler' = [handler EXCEPT ![r].pc = "bound"]
    /\ UNCHANGED <<choices_info, txn, flt, ser, md>>

\* ... then __call__ with its proposed value.
HandlerCall(r) ==
    /\ handler[r].pc = "bound"
    /\ Call(handler[r].proposed)
    /\ handler' = [handler EXCEPT ![r].pc = "done",
                                  ![r].read = current_value',
                                  ![r].outcome = outcome']
    /\ UNCHANGED <<choices_info, txn, flt, ser, md>>

NextShared ==
    \/ \E r \in Requests : HandlerSetContext(r)
    \/ \E r \in Requests : HandlerCall(r)

SpecShared == InitShared /\ [][NextShared]_vars

\* ------------------------------------ AtomicNonIdempotentActionViewSetMixin
\* Rows a request may write; a write is identified by the row it touches.
MaxWrites == 3
Writes == 1..MaxWrites

ViewSetActions == {"create", "update", "destroy"}

\* The mixin decorates the action with transaction.atomic, so the
\* superclass action runs inside a database transaction.
Decorated_UpdateNotWrapped(action) == action \in {"create", "destroy"}

Decorated(action) == action \in {"create", "update", "destroy"}

\* txn.db      rows visible in the data store (committed)
\* txn.pending rows written inside the open transaction
\* txn.before  txn.db when the request started
\* txn.done    rows the superclass action has written in this request
InitAtomic ==
    /\ txn = [pc |-> "idle", action |-> "none", db |-> {}, pending |-> {},
              before |-> {}, done |-> {}]
    /\ value_transitions = <<>>
    /\ valid_values = {}
    /\ choices = {}
    /\ instance = NoInstance
    /\ value = NoneValue
    /\ current_value = NoneValue
    /\ valid_value_transitions = {}
    /\ outcome = "none"
    /\ op = "none"
    /\ handler = Unused
    /\ choices_info = Unused
    /\ flt = Unused
    /\ ser = Unused
    /\ md = Unused

\* The mixin's create / update / destroy is entered: transaction.atomic
\* opens a transaction before the superclass action starts.
ActionBegin(action) ==
    /\ txn.pc \in {"idle", "returned", "raised"}
    /\ txn' = [pc |-> "running", action |-> action, db |-> txn.db,
               pending |-> {}, before |-> txn.db, done |-> {}]

\* The superclass action writes a row: inside the transaction when the
\* action is decorated, autocommitted otherwise.
ActionWrite(w) ==
    /\ txn.pc = "running"
    /\ w \notin txn.db \cup txn.pending
    /\ txn' = IF Decorated(txn.action)
              THEN [txn EXCEPT !.pending = @ \cup {w}, !.done = @ \cup {w}]
              ELSE [txn EXCEPT !.db = @ \cup {w}, !.done = @ \cup {w}]

\* The superclass action returns: transaction.atomic commits.
ActionReturn ==
    /\ txn.pc = "running"
    /\ txn' = [txn EXCEPT !.pc = "returned",
                          !.db = @ \cup txn.pending,
                          !.pending = {}]

\* The superclass action raises: transaction.atomic rolls back and the
\* exception propagates.
ActionRaise ==
    /\ txn.pc = "running"
    /\ txn' = [txn EXCEPT !.pc = "raised", !.pending = {}]

NextAtomic ==
    /\ \/ \E a \in ViewSetActions : ActionBegin(a)
       \/ \E w \in Writes : ActionWrite(w)
       \/ ActionReturn
       \/ ActionRaise
    /\ UNCHANGED <<validatorVars, handler, choices_info, flt, ser, md>>

SpecAtomic == InitAtomic /\ [][NextAtomic]_vars

\* --------------------------------------------- AuthenticatedUserAccessFilter
\* request.user: <<>> is None, <<u>> a user object (AnonymousUser included:
\* it has an id and is_staff = FALSE).
NoUser == <<>>
Users == {[id |-> i, uuid |-> i + 10, is_staff |-> b] :
              i \in {1, 2}, b \in BOOLEAN}

\* request.auth: "none" is a falsy auth, otherwise the
\* authorization_grant_type of the token's application.
AuthKinds == {"none", "client-credentials", "password"}

\* Rows of the queryset, with the two columns the views filter on.
Queryset == [user : {1, 11}, user_id : {1, 2}]

\* View attributes; "" models an attribute that is None or not set.
FilterViews == [user_pk_filter_kwarg : {"", "user"},
                user_id_filter_kwarg : {"", "user_id"},
                user_pk_field : {"id", "uuid"},
                filter_staff_accounts : BOOLEAN]

\* _is_app_token_authenticated without the final `request.user is None`.
IsAppTokenAuthenticated_AnyUser(auth, user) ==
    IF auth = "none" THEN FALSE
    ELSE IF auth # "client-credentials" THEN FALSE
    ELSE TRUE

\* _is_app_token_authenticated(request)
IsAppTokenAuthenticated(auth, user) ==
    IF auth = "none" THEN FALSE
    ELSE IF auth # "client-credentials" THEN FALSE
    ELSE user = NoUser

\* filter_queryset(request, queryset, view): the outcome is "returned",
\* "ImproperlyConfigured" (line 30) or "AttributeError" (an attribute of
\* request.user is read while request.user is None, line 57 or 63).
FilterQueryset(auth, user, qs, view) ==
    IF view.user_pk_filter_kwarg = "" /\ view.user_id_filter_kwarg = ""
    THEN [outcome |-> "ImproperlyConfigured", result |-> {}]
    ELSE LET kwarg == IF view.user_pk_filter_kwarg # ""
                      THEN view.user_pk_filter_kwarg
                      ELSE view.user_id_filter_kwarg
         IN  IF IsAppTokenAuthenticated(auth, user)
             THEN [outcome |-> "returned", result |-> qs]
             ELSE IF ~view.filter_staff_accounts /\ user = NoUser
             THEN [outcome |-> "AttributeError", result |-> {}]
             ELSE IF ~view.filter_staff_accounts /\ user[1].is_staff
             THEN [outcome |-> "returned", result |-> qs]
             ELSE IF user = NoUser
             THEN [outcome |-> "AttributeError", result |-> {}]
             ELSE [outcome |-> "returned",
                   result |-> {row \in qs :
                                 row[kwarg] = user[1][view.user_pk_field]}]

InitFilter ==
    /\ flt \in [pc : {"request"},
                 auth : AuthKinds,
                 user : {NoUser} \cup {<<u>> : u \in Users},
                 view : FilterViews,
                 outcome : {"none"},
                 result : {{}}]
    /\ value_transitions = <<>>
    /\ valid_values = {}
    /\ choices = {}
    /\ instance = NoInstance
    /\ value = NoneValue
    /\ current_value = NoneValue
    /\ valid_value_transitions = {}
    /\ outcome = "none"
    /\ op = "none"
    /\ handler = Unused
    /\ choices_info = Unused
    /\ txn = Unused
    /\ ser = Unused
    /\ md = Unused

\* The view filters its queryset for the request.
Filter ==
    /\ flt.pc = "request"
    /\ LET r == FilterQueryset(flt.auth, flt.user, Queryset, flt.view)
       IN  flt' = [flt EXCEPT !.pc = "done",
                              !.outcome = r.outcome,
                              !.result = r.result]
    /\ UNCHANGED <<validatorVars, handler, choices_info, txn, ser, md>>

NextFilter == Filter

SpecFilter == InitFilter /\ [][NextFilter]_vars

\* ------------------------------------------------ PolymorphicModelSerializer
\* Values of the differentiator: None, "", two keys of the map and a truthy
\* value that is no key.
DifferentiatorValues == {NoneValue, Empty, "x", "y", "z"}

\* Meta.child_serializer_map, restricted to the keys a Meta declares.
ChildSerializerOf == [x |-> "XSerializer", y |-> "YSerializer"]
ChildMapKeys == {{}, {"x"}, {"x", "y"}}

\* `instance` argument: <<>> is None, otherwise a model object that has the
\* differentiator attribute (attr = TRUE, with its value) or lacks it.
NoObject == <<>>
Objects == {<<[attr |-> FALSE, value |-> NoneValue]>>}
               \cup {<<[attr |-> TRUE, value |-> v]>> : v \in DifferentiatorValues}

\* `data` argument: <<>> is fields.empty, otherwise <<data.get(field)>>.
EmptyData == <<>>
Datas == {<<v>> : v \in DifferentiatorValues}

\* _get_differentiator_value with the two sources in the other order.
GetDifferentiatorValue_InstanceFirst(inst, data) ==
    LET from_inst == IF inst # NoObject /\ inst[1].attr
                     THEN inst[1].value ELSE NoneValue
    IN  IF ~Truthy(from_inst) /\ data # EmptyData
        THEN data[1]
        ELSE from_inst

\* _get_differentiator_value(instance, data)
GetDifferentiatorValue(inst, data) ==
    LET from_data == IF data # EmptyData THEN data[1] ELSE NoneValue
    IN  IF ~Truthy(from_data) /\ inst # NoObject
        THEN IF inst[1].attr THEN inst[1].value ELSE from_data
        ELSE from_data

\* PolymorphicModelSerializer.__new__: c is the configuration and the
\* arguments; row_exists tells whether model.objects.get finds the row of
\* the child model.  The result names the class of the returned serializer.
NewSerializer(c) ==
    IF ~c.has_meta THEN [outcome |-> "ImproperlyConfigured", class |-> "none"]
    ELSE IF c.differentiator_field = ""
    THEN [outcome |-> "ImproperlyConfigured", class |-> "none"]
    ELSE IF c.map_keys = {}
    THEN [outcome |-> "ImproperlyConfigured", class |-> "none"]
    ELSE IF c.many
    THEN [outcome |-> "returned", class |-> "ListSerializer"]
    ELSE LET dv == GetDifferentiatorValue(c.instance, c.data)
         IN  IF Truthy(dv)
             THEN IF dv \notin c.map_keys
                  THEN [outcome |-> "KeyError", class |-> "none"]
                  ELSE IF c.instance # NoObject /\ ~c.row_exists
                  THEN [outcome |-> "DoesNotExist", class |-> "none"]
                  ELSE [outcome |-> "returned",
                        class |-> ChildSerializerOf[dv]]
             ELSE [outcome |-> "returned", class |-> "Base"]

SerializerCalls ==
    [has_meta : BOOLEAN,
     differentiator_field : {"", "kind"},
     map_keys : ChildMapKeys,
     many : BOOLEAN,
     instance : {NoObject} \cup Objects,
     data : {EmptyData} \cup Datas,
     row_exists : BOOLEAN]

InitSerializer ==
    /\ ser \in [pc : {"call"}, args : SerializerCalls,
                 outcome : {"none"}, class : {"none"}]
    /\ value_transitions = <<>>
    /\ valid_values = {}
    /\ choices = {}
    /\ instance = NoInstance
    /\ value = NoneValue
    /\ current_value = NoneValue
    /\ valid_value_transitions = {}
    /\ outcome = "none"
    /\ op = "none"
    /\ handler = Unused
    /\ choices_info = Unused
    /\ txn = Unused
    /\ flt = Unused
    /\ md = Unused

\* The serializer class is called: __new__ runs.
New ==
    /\ ser.pc = "call"
    /\ LET r == NewSerializer(ser.args)
       IN  ser' = [ser EXCEPT !.pc = "done",
                              !.outcome = r.outcome,
                              !.class = r.class]
    /\ UNCHANGED <<validatorVars, handler, choices_info, txn, flt, md>>

NextSerializer == New

SpecSerializer == InitSerializer /\ [][NextSerializer]_vars

\* ------------------------------------ ObjectSpecificMetadata.determine_actions
\* Methods a view may allow.
HttpMethods == {"GET", "PUT", "POST"}

\* What a call made inside the loop body may do: return, raise one of the
\* exceptions the `except` clause names, or raise any other exception.
CaughtExceptions == {"APIException", "PermissionDenied", "Http404"}
CallOutcomes == {"pass", "OtherException"} \cup CaughtExceptions

\* view.request after the `finally` clause when the clause is only reached
\* if no exception propagates.
RequestAfterFinally_NotOnRaise(request, view_request, raising) ==
    IF raising THEN view_request ELSE request

\* `finally: view.request = request` (lines 226-227): runs on every exit.
RequestAfterFinally(request, view_request, raising) == request

\* md.view_request is view.request: "original" is the request passed to
\* determine_actions, <<m>> the clone made for method m.
InitMetadata ==
    /\ md \in [pc : {"loop"},
                allowed : SUBSET HttpMethods,
                has_check_permissions : BOOLEAN,
                has_get_object : BOOLEAN,
                todo : {{}},
                method : {"none"},
                view_request : {"original"},
                actions : {{}},
                passed : {{}},
                raising : {FALSE}]
    /\ value_transitions = <<>>
    /\ valid_values = {}
    /\ choices = {}
    /\ instance = NoInstance
    /\ value = NoneValue
    /\ current_value = NoneValue
    /\ valid_value_transitions = {}
    /\ outcome = "none"
    /\ op = "none"
    /\ handler = Unused
    /\ choices_info = Unused
    /\ txn = Unused
    /\ flt = Unused
    /\ ser = Unused

\* Lines 199-200: actions = {} and the loop over {'PUT','POST'} & allowed.
MdStart ==
    /\ md.pc = "loop"
    /\ md.method = "none"
    /\ md.todo = {}
    /\ md.passed = {}
    /\ md' = [md EXCEPT !.todo = {"PUT", "POST"} \cap md.allowed,
                        !.pc = "next"]

\* Line 229: the loop is exhausted, actions are returned.
MdReturn ==
    /\ md.pc = "next"
    /\ md.todo = {}
    /\ md' = [md EXCEPT !.pc = "returned"]

\* Line 201: the next method (a set is iterated in any order); view.request
\* becomes the clone.
MdClone(m) ==
    /\ md.pc = "next"
    /\ m \in md.todo
    /\ md' = [md EXCEPT !.todo = @ \ {m}, !.method = m,
                        !.view_request = <<m>>, !.pc = "permissions"]

\* Where control goes from the try block after a call ended with e.
AfterTry(e, then) ==
    IF e = "pass" THEN then ELSE "finally"

\* Lines 204-205: view.check_permissions, if the view has it.
MdCheckPermissions(e) ==
    /\ md.pc = "permissions"
    /\ IF md.has_check_permissions
       THEN md' = [md EXCEPT !.pc = AfterTry(e, "object"),
                             !.raising = (e = "OtherException")]
       ELSE e = "pass" /\ md' = [md EXCEPT !.pc = "object"]

\* Lines 207-208: view.get_object for PUT, if the view has it.
MdGetObject(e) ==
    /\ md.pc = "object"
    /\ IF md.method = "PUT" /\ md.has_get_object
       THEN md' = [md EXCEPT !.pc = AfterTry(e, "else"),
                             !.raising = (e = "OtherException"),
                             !.passed = IF e = "pass"
                                        THEN @ \cup {md.method} ELSE @]
       ELSE e = "pass" /\ md' = [md EXCEPT !.pc = "else",
                                           !.passed = @ \cup {md.method}]

\* Lines 211-225: the else branch builds the serializer and its info; any
\* exception raised here propagates (nothing catches it).
MdElse(e) ==
    /\ md.pc = "else"
    /\ IF e = "pass"
       THEN md' = [md EXCEPT !.actions = @ \cup {md.method},
                             !.pc = "finally"]
       ELSE md' = [md EXCEPT !.raising = TRUE, !.pc = "finally"]

\* Lines 226-227: finally; then the next iteration or the exception leaves
\* determine_actions.
MdFinally ==
    /\ md.pc = "finally"
    /\ md' = [md EXCEPT
                 !.view_request = RequestAfterFinally(
                     "original", md.view_request, md.raising),
                 !.pc = IF md.raising THEN "raised" ELSE "next"]

NextMetadata ==
    /\ \/ MdStart
       \/ MdReturn
       \/ \E m \in {"PUT", "POST"} : MdClone(m)
       \/ \E e \in CallOutcomes : MdCheckPermissions(e)
       \/ \E e \in CallOutcomes : MdGetObject(e)
       \/ \E e \in CallOutcomes : MdElse(e)
       \/ MdFinally
    /\ UNCHANGED <<validatorVars, handler, choices_info, txn, flt, ser>>

SpecMetadata == InitMetadata /\ [][NextMetadata]_vars

\* ================================================================= claims
\* The last __call__ read the field of an instance (it got past line 98).
Called == op \in {"call", "update"} /\ outcome \notin {"none", "AttributeError"}

\* The last __call__ got a list back from _get_valid_value_transitions.
Returned == Called /\ outcome # "ImproperlyConfigured"

\* The value domain of the validator (explicit, or the field's choices).
Domain == ValueDomain(valid_values, choices)

\* Indices of the rules that list v among their from-values.
RulesFrom(v) == {i \in DOMAIN value_transitions : v \in value_transitions[i][2]}

\* Indices of the rules whose to-value is v.
RulesTo(v) == {i \in DOMAIN value_transitions : value_transitions[i][1] = v}

\* C1: with a determinable value domain, __call__(proposed) on an instance
\* holding `current` raises ValidationError exactly when proposed is truthy
\* and not among _get_valid_value_transitions(current); otherwise it returns
\* normally.
C1_RaisesExactlyOnInvalidTransition ==
    (Called /\ ~DomainUndeterminable(valid_values, choices)) =>
        LET allowed == GetValidValueTransitions(
                           value_transitions, valid_values, choices,
                           current_value).ret
        IN  /\ outcome \in {"ok", "ValidationError"}
            /\ outcome = "ValidationError" <=>
                   (Truthy(value) /\ value \notin allowed)

C1_Witness ==
    /\ Called
    /\ ~DomainUndeterminable(valid_values, choices)
    /\ outcome = "ValidationError"
    /\ valid_value_transitions # {}

\* C2 (as stated): __call__ with a falsy proposed value raises nothing, for
\* every current value and every configuration, a validator without a
\* determinable value domain included.
C2_FalsyNeverFails ==
    (Called /\ ~Truthy(value)) => outcome = "ok"

\* The current value takes the unconstrained branch (lines 70-91).
Unconstrained(cur) ==
    /\ ~(Truthy(cur) /\ cur \in DictGet(value_transitions, NoneValue))
    /\ (~InDict(value_transitions, cur) \/ cur = NoneValue)

\* C2 (amended): __call__ with a falsy proposed value never raises
\* ValidationError; it raises ImproperlyConfigured exactly when the value
\* domain cannot be determined and the current value is unconstrained (None
\* or not a to-value of any rule, and not terminal), and returns normally in
\* every other case.
C2_FalsyFailsOnlyOnMissingDomain ==
    (Called /\ ~Truthy(value)) =>
        /\ outcome \in {"ok", "ImproperlyConfigured"}
        /\ outcome = "ImproperlyConfigured" <=>
               (DomainUndeterminable(valid_values, choices)
                /\ Unconstrained(current_value))

C2_Witness ==
    /\ Called
    /\ ~Truthy(value)
    /\ outcome = "ok"
    /\ DomainUndeterminable(valid_values, choices)
    /\ Truthy(current_value)

\* The current value is a domain value that no rule mentions.
InNoRule(v) == v \in Domain /\ RulesFrom(v) = {} /\ RulesTo(v) = {}

\* C3 (as stated): for a domain value v that is neither a to-value nor a
\* from-value of any rule, _get_valid_value_transitions(v) is exactly
\* ValueDomain \ {v}, without None.
C3_UnconstrainedIsDomainMinusSelf ==
    (Called /\ InNoRule(current_value)) =>
        /\ outcome # "ImproperlyConfigured"
        /\ valid_value_transitions = Domain \ {current_value}

\* C3 (amended): for a domain value v that is neither a to-value nor a
\* from-value of any rule, _get_valid_value_transitions(v) is exactly
\* (ValueDomain \ {v}) plus None.
C3_UnconstrainedIsDomainMinusSelfPlusNone ==
    (Called /\ InNoRule(current_value)) =>
        /\ outcome # "ImproperlyConfigured"
        /\ valid_value_transitions =
               (Domain \ {current_value}) \cup {NoneValue}

C3_Witness ==
    /\ Called
    /\ InNoRule(current_value)
    /\ value_transitions # <<>>
    /\ Cardinality(Domain) > 1

\* C4: for every value v among the from-values of a rule whose to-value is
\* None, _get_valid_value_transitions(v) is empty, truthy or not.
C4_SourceOfNoneRuleIsTerminal ==
    (Returned /\ \E i \in RulesTo(NoneValue) : i \in RulesFrom(current_value))
        => valid_value_transitions = {}

\* C5 (as stated): for every rule (target, sources) and every s in sources,
\* target is in _get_valid_value_transitions(s).
C5_EveryRuleTargetAllowed ==
    Returned =>
        \A i \in RulesFrom(current_value) :
            value_transitions[i][1] \in valid_value_transitions

\* The current value is terminal for the code: truthy and among the
\* from-values of the None rule that dict() keeps.
Terminal(cur) == Truthy(cur) /\ cur \in DictGet(value_transitions, NoneValue)

\* C5 (amended): for every rule (target, sources) and every s in sources
\* that is not terminal, target is in _get_valid_value_transitions(s)
\* provided s is a to-value of some rule and not None, or target is None or
\* a value of the value domain; for a terminal s the result is empty.
C5_RuleTargetAllowedUnlessTerminal ==
    Returned =>
        /\ Terminal(current_value) => valid_value_transitions = {}
        /\ \A i \in RulesFrom(current_value) :
               (/\ ~Terminal(current_value)
                /\ \/ (InDict(value_transitions, current_value)
                       /\ current_value # NoneValue)
                   \/ value_transitions[i][1] \in Domain \cup {NoneValue})
               => value_transitions[i][1] \in valid_value_transitions

C5_Witness ==
    /\ Returned
    /\ ~Terminal(current_value)
    /\ InDict(value_transitions, current_value)
    /\ current_value # NoneValue
    /\ Cardinality({value_transitions[i][1] : i \in RulesFrom(current_value)}) = 2

\* C6: for a current value that is not None, is a to-value of some rule and
\* is not a from-value of a rule to None, _get_valid_value_transitions
\* returns exactly the to-values of all rules that list the current value.
C6_ConstrainedCollectsAllMatchingRules ==
    (/\ Called
     /\ current_value # NoneValue
     /\ InDict(value_transitions, current_value)
     /\ \A i \in RulesTo(NoneValue) : i \notin RulesFrom(current_value))
    =>  /\ outcome # "ImproperlyConfigured"
        /\ valid_value_transitions =
               {value_transitions[i][1] : i \in RulesFrom(current_value)}

C6_Witness ==
    /\ Called
    /\ current_value = Empty
    /\ InDict(value_transitions, current_value)
    /\ \A i \in RulesTo(NoneValue) : i \notin RulesFrom(current_value)
    /\ Cardinality(valid_value_transitions) = 2

\* ------------------------------------------------ the docstring's example
\* C7: with the example table and a current value of None the allowed set
\* is {start}: proposing "start" is accepted, proposing "middle" or "end"
\* is rejected with ValidationError.
C7_OnlyStartFromNone ==
    (Called /\ value_transitions = ExampleTable /\ current_value = NoneValue)
    =>  /\ valid_value_transitions = {"start"}
        /\ value = "start" => outcome = "ok"
        /\ value \in {"middle", "end"} => outcome = "ValidationError"

\* C8 (as stated): with the example table the transitions of "start" are
\* exactly {middle} and those of "middle" exactly {end}.
C8_ExampleStartOnlyMiddle ==
    (Called /\ value_transitions = ExampleTable) =>
        /\ current_value = "start" => valid_value_transitions = {"middle"}
        /\ current_value = "middle" => valid_value_transitions = {"end"}

\* C8 (amended): with the example table the transitions of "start" are
\* exactly {middle, end} and those of "middle" exactly {end}.
C8_ExampleStartMiddleAndEnd ==
    (Called /\ value_transitions = ExampleTable) =>
        /\ current_value = "start" =>
               valid_value_transitions = {"middle", "end"}
        /\ current_value = "middle" => valid_value_transitions = {"end"}

C8_Witness ==
    /\ Called
    /\ value_transitions = ExampleTable
    /\ current_value = "start"
    /\ valid_value_transitions = {"middle", "end"}

\* C9: with the example table start -> end, middle -> end and
\* start -> middle are accepted, middle -> start raises ValidationError.
C9_ExampleTransitions ==
    (Called /\ value_transitions = ExampleTable) =>
        /\ (current_value = "start" /\ value = "end") => outcome = "ok"
        /\ (current_value = "middle" /\ value = "end") => outcome = "ok"
        /\ (current_value = "start" /\ value = "middle") => outcome = "ok"
        /\ (current_value = "middle" /\ value = "start")
               => outcome = "ValidationError"

C9_Witness ==
    /\ Called
    /\ value_transitions = ExampleTable
    /\ current_value = "start"
    /\ value = "end"
    /\ outcome = "ok"
    /\ instance = Instance("end")

C11_CallUsesOwnInstance ==
    \A r \in Requests :
        handler[r].pc = "done" =>
            /\ handler[r].read = handler[r].own
            /\ handler[r].outcome =
                   CallResult(value_transitions, valid_values, choices,
                              Instance(handler[r].own),
                              handler[r].proposed).outcome

\* ----------------------------------------------- purity and configuration
\* C12: _get_valid_value_transitions is a pure function of (current value,
\* table, value domain): a call leaves value_transitions and valid_values
\* unchanged, and two calls with the same table and current value return
\* identical sets, also when the field's choices change in between.
C12_CallIsPure ==
    [][op' = "call" =>
           /\ value_transitions' = value_transitions
           /\ valid_values' = valid_values
           /\ (/\ outcome \in {"ok", "ValidationError"}
               /\ outcome' \in {"ok", "ValidationError"}
               /\ current_value' = current_value)
              => valid_value_transitions' = valid_value_transitions]_vars

\* C13 (as stated): a validator whose value domain cannot be determined
\* fails with ImproperlyConfigured when it is set up, so it never gets to
\* validate a value; a validator whose domain can be determined never
\* raises ImproperlyConfigured.
C13_MissingDomainFailsAtSetup ==
    op = "call" =>
        IF DomainUndeterminable(valid_values, choices)
        THEN outcome \notin {"ok", "ValidationError"}
        ELSE outcome # "ImproperlyConfigured"

\* C13 (amended): construction and set_context never raise; __call__ raises
\* ImproperlyConfigured exactly when, at the time of the call, the value
\* domain cannot be determined and the current value is unconstrained (None
\* or not a to-value of any rule, and not terminal).  With an undeterminable
\* domain a constrained or terminal current value is validated normally; a
\* validator whose domain can be determined never raises it.
C13_MissingDomainFailsLazily ==
    [][/\ op' = "set_context" => outcome' = outcome
       /\ op' = "call" =>
              (outcome' = "ImproperlyConfigured" <=>
                   (/\ instance # NoInstance
                    /\ DomainUndeterminable(valid_values, choices)
                    /\ Unconstrained(instance[1])))]_vars

C13_Witness ==
    /\ op = "call"
    /\ outcome = "ok"
    /\ DomainUndeterminable(valid_values, choices)
    /\ instance # NoInstance
    /\ value = "a"

\* --------------------------------------------------- duplicates, metadata
\* Index of the first rule whose to-value is v.
FirstRuleTo(v) == CHOOSE i \in RulesTo(v) : \A j \in RulesTo(v) : i <= j

\* C14: with several rules for one target the first rule in table order is
\* used wherever the table is looked up by target: the terminal check uses
\* the from-values of the first rule to None, whether the current value is
\* a listed target does not depend on duplicates, and the metadata's
\* previous-state lookup returns the first rule's from-values.
C14_FirstRuleWins ==
    /\ (/\ Returned
        /\ RulesTo(NoneValue) # {}
        /\ Truthy(current_value)
        /\ current_value \in value_transitions[FirstRuleTo(NoneValue)][2])
       => valid_value_transitions = {}
    /\ Called =>
           (InDict(value_transitions, current_value)
                <=> RulesTo(current_value) # {})
    /\ choices_info # Unused =>
           \A t \in choices :
               RulesTo(t) # {} =>
                   choices_info.only_if[t] =
                       value_transitions[FirstRuleTo(t)][2]

\* C19: the metadata and the validator agree: for every choice t and every
\* current value s, s is among the advertised previous states of t exactly
\* when t is among the validator's transitions of s.
C19_MetadataAgreesWithValidator ==
    (Returned /\ choices_info # Unused) =>
        \A t \in choices :
            current_value \in choices_info.only_if[t]
                <=> t \in valid_value_transitions

\* ------------------------------------------------------ atomic view actions
\* C15: create, update and destroy of the mixin run the superclass action
\* in one transaction: when it raises after some writes none of the
\* request's writes is visible afterwards, when it returns all of them
\* are, and no part of them is visible in between.
C15_WritesAreAtomic ==
    /\ txn.pc = "raised" => txn.db = txn.before
    /\ txn.pc = "returned" => txn.db = txn.before \cup txn.done
    /\ txn.pc = "running" => txn.db = txn.before

C15_Witness ==
    /\ txn.pc = "raised"
    /\ txn.action = "update"
    /\ Cardinality(txn.done) = 2
    /\ txn.before # {}

\* --------------------------------------------------------- queryset filter
\* The view sets neither user_pk_filter_kwarg nor user_id_filter_kwarg.
FilterUnconfigured ==
    flt.view.user_pk_filter_kwarg = "" /\ flt.view.user_id_filter_kwarg = ""

\* Case (a): app-token authenticated request.
FilterAppToken ==
    flt.auth = "client-credentials" /\ flt.user = NoUser

\* Case (b): staff user of a view that does not filter staff accounts.
FilterStaffBypass ==
    /\ ~flt.view.filter_staff_accounts
    /\ flt.user # NoUser
    /\ flt.user[1].is_staff

\* The queryset restricted to the rows of the authenticated user.
RowsOfUser ==
    {row \in Queryset :
        (IF flt.view.user_pk_filter_kwarg # "" THEN row.user ELSE row.user_id)
            = (IF flt.view.user_pk_field = "id"
               THEN flt.user[1].id ELSE flt.user[1].uuid)}

\* C16 (as stated): an unconfigured view raises ImproperlyConfigured; the
\* full queryset is returned only in cases (a) and (b); in every other case
\* the rows of the authenticated user are returned.
C16_FilterCases ==
    flt.pc = "done" =>
        IF FilterUnconfigured
        THEN flt.outcome = "ImproperlyConfigured"
        ELSE /\ flt.outcome = "returned"
             /\ IF FilterAppToken \/ FilterStaffBypass
                THEN flt.result = Queryset
                ELSE flt.result = RowsOfUser

\* C16 (amended): as stated for every request whose request.user is not
\* None or which is app-token authenticated; a request with request.user
\* None that is not app-token authenticated makes a configured view raise
\* AttributeError, and no queryset is returned.
C16_FilterCasesWithUser ==
    flt.pc = "done" =>
        IF FilterUnconfigured
        THEN flt.outcome = "ImproperlyConfigured"
        ELSE IF flt.user = NoUser /\ ~FilterAppToken
        THEN flt.outcome = "AttributeError"
        ELSE /\ flt.outcome = "returned"
             /\ IF FilterAppToken \/ FilterStaffBypass
                THEN flt.result = Queryset
                ELSE flt.result = RowsOfUser

C16_Witness ==
    /\ flt.pc = "done"
    /\ flt.outcome = "returned"
    /\ flt.auth = "client-credentials"
    /\ flt.user # NoUser
    /\ flt.view.user_pk_filter_kwarg = ""
    /\ flt.result # Queryset
    /\ flt.result # {}

\* --------------------------------------------------- polymorphic dispatch
\* The Meta checks of __new__ fail.
SerializerMisconfigured ==
    \/ ~ser.args.has_meta
    \/ ser.args.differentiator_field = ""
    \/ ser.args.map_keys = {}

\* The differentiator as the claim describes it: the value in data when
\* data is supplied and that value is truthy, otherwise the attribute of
\* the instance (None without an instance or without the attribute).
ClaimedDifferentiator ==
    IF ser.args.data # EmptyData /\ Truthy(ser.args.data[1])
    THEN ser.args.data[1]
    ELSE IF ser.args.instance # NoObject /\ ser.args.instance[1].attr
    THEN ser.args.instance[1].value
    ELSE NoneValue

\* C17 (as stated): the Meta checks raise ImproperlyConfigured before any
\* dispatch; with many=False a truthy differentiator always yields an
\* instance of child_serializer_map[value], a falsy or absent one the base
\* class.
C17_DispatchByDifferentiator ==
    ser.pc = "done" =>
        IF SerializerMisconfigured
        THEN ser.outcome = "ImproperlyConfigured"
        ELSE ~ser.args.many =>
                 /\ ser.outcome = "returned"
                 /\ IF Truthy(ClaimedDifferentiator)
                    THEN /\ ClaimedDifferentiator \in ser.args.map_keys
                         /\ ser.class = ChildSerializerOf[ClaimedDifferentiator]
                    ELSE ser.class = "Base"

\* C17 (amended): as stated, except that a truthy differentiator yields an
\* instance of child_serializer_map[value] only when value is a key of the
\* map and, when an instance is given, the row of the child model is found;
\* a truthy value that is no key raises KeyError, a missing row raises
\* DoesNotExist, and in neither case is the base class returned.
C17_DispatchByKnownDifferentiator ==
    ser.pc = "done" =>
        IF SerializerMisconfigured
        THEN ser.outcome = "ImproperlyConfigured"
        ELSE ~ser.args.many =>
                 IF ~Truthy(ClaimedDifferentiator)
                 THEN ser.outcome = "returned" /\ ser.class = "Base"
                 ELSE IF ClaimedDifferentiator \notin ser.args.map_keys
                 THEN ser.outcome = "KeyError"
                 ELSE IF ser.args.instance # NoObject /\ ~ser.args.row_exists
                 THEN ser.outcome = "DoesNotExist"
                 ELSE /\ ser.outcome = "returned"
                      /\ ser.class = ChildSerializerOf[ClaimedDifferentiator]

C17_Witness ==
    /\ ser.pc = "done"
    /\ ser.outcome = "returned"
    /\ ser.class = "YSerializer"
    /\ ser.args.data = <<"y">>
    /\ ser.args.instance # NoObject
    /\ ser.args.instance[1].attr
    /\ ser.args.instance[1].value = "x"

\* ------------------------------------------------------- determine_actions
\* C18: when determine_actions finishes, by returning or by an exception,
\* view.request is the original request again, and the actions have an
\* entry for PUT or POST only if the view allows the method and its
\* permission and object checks raised nothing.
C18_RequestRestored ==
    md.pc \in {"returned", "raised"} =>
        /\ md.view_request = "original"
        /\ md.actions \subseteq ({"PUT", "POST"} \cap md.allowed)
        /\ md.actions \subseteq md.passed

C18_Witness ==
    /\ md.pc = "raised"
    /\ md.method = "POST"
    /\ md.actions = {"PUT"}
    /\ md.has_check_permissions
    /\ "POST" \notin md.passed

====
